---------------------------- MODULE Spec2Model ----------------------------
(***************************************************************************)
(* The two migration scripts of the repository as one state machine:       *)
(*   apply_migration.py        splits the migration file on ';', submits   *)
(*                             every statement to the exec_sql RPC, then   *)
(*                             queries the four drill tables;              *)
(*   apply_migration_simple.py prints manual instructions, then queries    *)
(*                             the four drill tables one by one.           *)
(* Text is a sequence of one-character strings, so that split, strip,      *)
(* startswith, lower and `in` are computed character by character.         *)
(* The remote service (exec_sql, the row-count query), the filesystem and  *)
(* the library calls are the environment: each of their outcomes is drawn  *)
(* with \E where the call is made.                                         *)
(***************************************************************************)
EXTENDS Integers, Sequences, FiniteSets

(* ------------------------------ bounds --------------------------------- *)

\* Longest migration text that is enumerated character by character.
MaxLen == 4

\* Length of the one long statement (longer than the 100-character preview).
LongLen == 105

(* ------------------------- program constants --------------------------- *)

\* apply_migration.py:50   if i % 10 == 0
ProgressEvery == 10

\* apply_migration.py:59   statement[:100]
PreviewLen == 100

\* apply_migration_simple.py:83   if len(existing_tables) == 4
AllTables == 4

APPLY == "apply_migration.py"

SIMPLE == "apply_migration_simple.py"

\* apply_migration_simple.py:72 (and the four queries of apply_migration.py:75-78)
tables == <<"drill_scenarios", "drill_runs", "drill_executions", "drill_evaluations">>

(* ------------------------------ text ----------------------------------- *)

Range(s) == {s[k] : k \in 1..Len(s)}

SEMI == <<";">>

DASHES == <<"-", "-">>

SLASHES == <<"/", "/">>

DOT == <<".">>

ALREADY_EXISTS == <<"a","l","r","e","a","d","y"," ","e","x","i","s","t","s">>

DUPLICATE == <<"d","u","p","l","i","c","a","t","e">>

UpperCase == <<"A","B","C","D","E","F","G","H","I","J","K","L","M","N","O","P","Q","R","S","T","U","V","W","X","Y","Z">>

LowerCase == <<"a","b","c","d","e","f","g","h","i","j","k","l","m","n","o","p","q","r","s","t","u","v","w","x","y","z">>

\* The characters str.strip() removes (the ASCII ones).
Whitespace == {" ", "\t", "\n", "\r", "\f"}

\* str.lower(), one character.
LowerChar(c) ==
    IF \E k \in 1..Len(UpperCase) : UpperCase[k] = c
    THEN LowerCase[CHOOSE k \in 1..Len(UpperCase) : UpperCase[k] = c]
    ELSE c

\* str.lower()
Lower(s) == [k \in 1..Len(s) |-> LowerChar(s[k])]

\* s.startswith(p)
StartsWith(s, p) == Len(s) >= Len(p) /\ SubSeq(s, 1, Len(p)) = p

\* sub in s
Contains(sub, s) ==
    \E k \in 1..(Len(s) - Len(sub) + 1) : SubSeq(s, k, k + Len(sub) - 1) = sub

\* s.find(sep) + 1: the first place sep occurs at, 0 when it does not occur.
Find(s, sep) ==
    IF Contains(sep, s)
    THEN CHOOSE k \in 1..(Len(s) - Len(sep) + 1) :
            /\ SubSeq(s, k, k + Len(sep) - 1) = sep
            /\ \A j \in 1..(k - 1) : SubSeq(s, j, j + Len(sep) - 1) # sep
    ELSE 0

\* s.split(sep): cut at each occurrence of sep, scanning from the left; the
\* pieces between (empty ones included), so never an empty list.
RECURSIVE SplitStr(_, _)
SplitStr(s, sep) ==
    LET k == Find(s, sep)
    IN  IF k = 0
        THEN <<s>>
        ELSE <<SubSeq(s, 1, k - 1)>> \o SplitStr(SubSeq(s, k + Len(sep), Len(s)), sep)

RECURSIVE LStrip(_)
LStrip(s) == IF s # <<>> /\ Head(s) \in Whitespace THEN LStrip(Tail(s)) ELSE s

RECURSIVE RStrip(_)
RStrip(s) ==
    IF s # <<>> /\ s[Len(s)] \in Whitespace THEN RStrip(SubSeq(s, 1, Len(s) - 1)) ELSE s

\* s.strip()
Strip(s) == RStrip(LStrip(s))

\* s[:n]
Take(s, n) == SubSeq(s, 1, IF Len(s) < n THEN Len(s) ELSE n)

(* ------------------------ the statement splitter ----------------------- *)

\* The filter of the list comprehension:
\*   if s.strip() and not s.strip().startswith('--')
KeepFragment(s) == Strip(s) # <<>> /\ ~StartsWith(Strip(s), DASHES)

\* A splitter that strips comment lines out of a fragment instead of
\* dropping the fragment: the command after the comment survives.
RECURSIVE DropCommentLines(_)
DropCommentLines(s) ==
    IF StartsWith(LStrip(s), DASHES)
    THEN LET nl == Find(s, <<"\n">>)
         IN  IF nl = 0 THEN <<>> ELSE DropCommentLines(SubSeq(s, nl + 1, Len(s)))
    ELSE s

StatementsLineComments(sql) ==
    LET parts == SplitStr(sql, SEMI)
        clean == [k \in 1..Len(parts) |-> Strip(DropCommentLines(parts[k]))]
    IN  SelectSeq(clean, LAMBDA s : s # <<>>)

\* A splitter that forgets to strip what it keeps.
StatementsUnstripped(sql) == SelectSeq(SplitStr(sql, SEMI), KeepFragment)

\* statements = [s.strip() for s in migration_sql.split(';')
\*               if s.strip() and not s.strip().startswith('--')]
Statements(sql) ==
    LET kept == SelectSeq(SplitStr(sql, SEMI), KeepFragment)
    IN  [k \in 1..Len(kept) |-> Strip(kept[k])]

(* ------------------------- error classification ------------------------ *)

\* A classifier that forgets to lower-case the message.
IsIdempotentConflictCaseSensitive(e) ==
    Contains(ALREADY_EXISTS, e) \/ Contains(DUPLICATE, e)

\* error_msg = str(e).lower()
\* the negation of: 'already exists' not in error_msg and 'duplicate' not in error_msg
IsIdempotentConflict(e) ==
    ~(~Contains(ALREADY_EXISTS, Lower(e)) /\ ~Contains(DUPLICATE, Lower(e)))

(* --------------------------- the environment --------------------------- *)

URL_OK == <<"h","t","t","p","s",":","/","/","p",".","c","o">>

URL_NO_SCHEME == <<"p",".","c","o">>

KEY_OK == <<"k","e","y">>

\* os.getenv: None when the variable is not set, else its text.
None == [set |-> FALSE, val |-> <<>>]

Some(s) == [set |-> TRUE, val |-> s]

UrlValues == {None, Some(<<>>), Some(URL_OK), Some(URL_NO_SCHEME)}

KeyValues == {None, Some(<<>>), Some(KEY_OK)}

\* Python truth of an Optional[str]: neither None nor "".
Truthy(v) == v.set /\ v.val # <<>>

ScriptChars == {"A", ";", " ", "-", "\n"}

LongStatement == [k \in 1..LongLen |-> "A"]

EXAMPLE_ABC == <<"A",";"," ","B",";",";"," "," ","C"," ">>

EXAMPLE_COMMENT_ONLY == <<"-","-"," ","c","o","m","m","e","n","t"," ","o","n","l","y">>

\* A comment line, a command under it, then a second statement.
EXAMPLE_COMMENTED == <<"-","-"," ","t","\n","A",";","B">>

ExampleScripts ==
    {EXAMPLE_ABC, EXAMPLE_COMMENT_ONLY, EXAMPLE_COMMENTED, LongStatement \o <<";", "B">>}

\* The contents the migration file may have.
Scripts == UNION {[1..n -> ScriptChars] : n \in 0..MaxLen} \cup ExampleScripts

ErrorMessages ==
    { <<"R","e","l","a","t","i","o","n"," ","A","L","R","E","A","D","Y"," ","E","X","I","S","T","S">>,
      <<"D","u","p","l","i","c","a","t","e"," ","k","e","y">>,
      <<"s","y","n","t","a","x"," ","e","r","r","o","r">>,
      <<"a","l","r","e","a","d","y"," ","e","x","i","s","t">> }

\* executor.exec: success, or an error with a message.
ExecResults ==
    {[ok |-> TRUE, msg |-> <<>>]} \cup {[ok |-> FALSE, msg |-> e] : e \in ErrorMessages}

QUERY_ERROR == <<"r","e","l","a","t","i","o","n"," ","d","o","e","s"," ","n","o","t"," ","e","x","i","s","t">>

\* supabase.table(t).select('id', count='exact').limit(0).execute():
\* a count, or an error.
QueryResults ==
    {[ok |-> TRUE, count |-> 5, msg |-> <<>>], [ok |-> FALSE, count |-> 0, msg |-> QUERY_ERROR]}

(* ------------------------------- state --------------------------------- *)

VARIABLES
    prog,                  \* which of the two scripts runs
    SUPABASE_URL,          \* os.getenv('NEXT_PUBLIC_SUPABASE_URL')
    SUPABASE_SERVICE_KEY,  \* os.getenv('SUPABASE_SERVICE_ROLE_KEY')
    pc,                    \* where the script is
    raised,                \* the exception that ended the script or reached an outer handler
    client,                \* create_client has returned a client
    project_ref,           \* apply_migration_simple.py:19
    migration_sql,         \* the text read from the migration file
    statements,            \* apply_migration.py:36
    i,                     \* enumerate(statements, 1): the index of the current statement
    inflight,              \* an exec_sql call has been sent and not yet answered
    submitted,             \* the statements sent to exec_sql, in the order sent
    answers,               \* what exec_sql answered, call by call
    results,               \* per statement, the branch its call took: Applied | SkippedIdempotent | Failed
    queried,               \* the row-count queries made, in order, each with its answer
    counts,                \* apply_migration.py:75-78 the counts returned so far
    existing_tables,       \* apply_migration_simple.py:73
    out                    \* the lines printed

vars ==
    <<prog, SUPABASE_URL, SUPABASE_SERVICE_KEY, pc, raised, client, project_ref,
      migration_sql, statements, i, inflight, submitted, answers, results, queried,
      counts, existing_tables, out>>

\* No exception has been raised.
NoException == [type |-> "none", msg |-> <<>>]

Exception(type, msg) == [type |-> type, msg |-> msg]

\* One printed line: what it says, and the values formatted into it.
Line(kind, n, text, table) == [kind |-> kind, n |-> n, text |-> text, table |-> table]

Say(kind) == Line(kind, 0, <<>>, "")

Init ==
    /\ prog \in {APPLY, SIMPLE}
    /\ SUPABASE_URL \in UrlValues
    /\ SUPABASE_SERVICE_KEY \in KeyValues
    /\ pc = "credentials"
    /\ raised = NoException
    /\ client = FALSE
    /\ project_ref = <<>>
    /\ migration_sql = <<>>
    /\ statements = <<>>
    /\ i = 0
    /\ inflight = FALSE
    /\ submitted = <<>>
    /\ answers = <<>>
    /\ results = <<>>
    /\ queried = <<>>
    /\ counts = <<>>
    /\ existing_tables = <<>>
    /\ out = <<>>


(* ----------------------- steps common to both scripts ------------------ *)

\* The guard read as "both are missing".
CredentialsMissingBoth == ~Truthy(SUPABASE_URL) /\ ~Truthy(SUPABASE_SERVICE_KEY)

\* if not SUPABASE_URL or not SUPABASE_SERVICE_KEY
CredentialsMissing == ~Truthy(SUPABASE_URL) \/ ~Truthy(SUPABASE_SERVICE_KEY)

\* Lines 12-18 of apply_migration.py, 12-16 of apply_migration_simple.py.
CheckCredentials ==
    /\ pc = "credentials"
    /\ IF CredentialsMissing
       THEN /\ pc' = "aborted"
            /\ raised' = Exception("ValueError", <<>>)
            /\ out' = out
       ELSE /\ pc' = IF prog = APPLY THEN "create_client" ELSE "project_ref"
            /\ raised' = raised
            /\ out' = IF prog = APPLY
                      THEN Append(out, Line("connecting", 0, SUPABASE_URL.val, ""))
                      ELSE out
    /\ UNCHANGED <<prog, SUPABASE_URL, SUPABASE_SERVICE_KEY, client, project_ref,
                   migration_sql, statements, i, inflight, submitted, answers, results,
                   queried, counts, existing_tables>>

\* with open(...) as f: migration_sql = f.read(), and the prints around it.
\* The file may be missing; open() is outside every try.
ReadMigration ==
    /\ pc = "read"
    /\ \E found \in BOOLEAN :
          IF found
          THEN \E sql \in Scripts :
                  /\ migration_sql' = sql
                  /\ pc' = IF prog = APPLY THEN "split" ELSE "instructions"
                  /\ raised' = raised
                  /\ out' = out \o
                        (IF prog = APPLY
                         THEN <<Say("reading"), Say("applying")>>
                         ELSE <<Say("reading"), Line("file_size", Len(sql), <<>>, "")>>)
          ELSE /\ migration_sql' = migration_sql
               /\ pc' = "crashed"
               /\ raised' = Exception("FileNotFoundError", <<>>)
               /\ out' = Append(out, Say("reading"))
    /\ UNCHANGED <<prog, SUPABASE_URL, SUPABASE_SERVICE_KEY, client, project_ref,
                   statements, i, inflight, submitted, answers, results, queried, counts,
                   existing_tables>>

(* --------------------------- apply_migration.py ------------------------ *)

\* supabase = create_client(SUPABASE_URL, SUPABASE_SERVICE_KEY), outside every
\* try: the library may refuse its arguments.
CreateClient ==
    /\ pc = "create_client"
    /\ \E made \in BOOLEAN :
          IF made
          THEN client' = TRUE /\ pc' = "read" /\ raised' = raised
          ELSE client' = client /\ pc' = "crashed"
               /\ raised' = Exception("create_client", <<>>)
    /\ UNCHANGED <<prog, SUPABASE_URL, SUPABASE_SERVICE_KEY, project_ref,
                   migration_sql, statements, i, inflight, submitted, answers, results,
                   queried, counts, existing_tables, out>>

\* statements = [...]; total = len(statements); print(f"Executing {total} ...")
SplitStatements ==
    /\ pc = "split"
    /\ statements' = Statements(migration_sql)
    /\ out' = Append(out, Line("executing", Len(statements'), <<>>, ""))
    /\ pc' = "apply"
    /\ UNCHANGED <<prog, SUPABASE_URL, SUPABASE_SERVICE_KEY, raised, client,
                   project_ref, migration_sql, i, inflight, submitted, answers, results,
                   queried, counts, existing_tables>>

\* A loop that walks the list from its end.
StatementAtReversed(n) == statements[Len(statements) + 1 - n]

\* for i, statement in enumerate(statements, 1): the statement of index n
StatementAt(n) == statements[n]

\* The head of the loop body up to the call: the next statement is taken and,
\* unless it is empty or a comment, sent to exec_sql.
SubmitStatement ==
    /\ pc = "apply"
    /\ ~inflight
    /\ i < Len(statements)
    /\ i' = i + 1
    /\ LET statement == StatementAt(i + 1)
       IN  IF statement = <<>> \/ StartsWith(statement, DASHES)
           THEN UNCHANGED <<submitted, inflight>>
           ELSE /\ submitted' = Append(submitted, statement)
                /\ inflight' = TRUE
    /\ UNCHANGED <<prog, SUPABASE_URL, SUPABASE_SERVICE_KEY, pc, raised, client,
                   project_ref, migration_sql, statements, answers, results, queried,
                   counts, existing_tables, out>>

\* The call returned: the progress line every tenth statement.
StatementApplied ==
    /\ results' = Append(results, "Applied")
    /\ out' = IF i % ProgressEvery = 0
              THEN Append(out, Line("progress", i, <<>>, ""))
              ELSE out
    /\ UNCHANGED <<pc, raised>>

\* A handler that lets a failure which is no idempotent conflict escape to
\* the outer handler.
StatementErrorAborts(e) ==
    IF IsIdempotentConflict(e)
    THEN /\ results' = Append(results, "SkippedIdempotent")
         /\ UNCHANGED <<out, pc, raised>>
    ELSE /\ results' = Append(results, "Failed")
         /\ out' = out
         /\ pc' = "fallback"
         /\ raised' = Exception("statement", e)

\* except Exception as e: the message is lower-cased and searched; a failure
\* that is no idempotent conflict is printed with the statement's first 100
\* characters. The exception goes no further.
StatementError(e) ==
    IF IsIdempotentConflict(e)
    THEN /\ results' = Append(results, "SkippedIdempotent")
         /\ UNCHANGED <<out, pc, raised>>
    ELSE /\ results' = Append(results, "Failed")
         /\ out' = out \o <<Line("warning", i, e, ""),
                            Line("warning_statement", i, Take(StatementAt(i), PreviewLen), "")>>
         /\ UNCHANGED <<pc, raised>>

\* The answer of exec_sql to the call in flight.
ReceiveResult ==
    /\ pc = "apply"
    /\ inflight
    /\ inflight' = FALSE
    /\ \E r \in ExecResults :
          /\ answers' = Append(answers, r)
          /\ IF r.ok THEN StatementApplied ELSE StatementError(r.msg)
    /\ UNCHANGED <<prog, SUPABASE_URL, SUPABASE_SERVICE_KEY, client, project_ref,
                   migration_sql, statements, i, submitted, queried, counts,
                   existing_tables>>

\* The success line printed only when no statement failed.
ApplyFinishedLinesIfClean ==
    IF "Failed" \in Range(results)
    THEN <<Say("verifying")>>
    ELSE <<Say("applied_successfully"), Say("verifying")>>

\* print("Migration applied successfully!"); print("Verifying tables...")
ApplyFinishedLines == <<Say("applied_successfully"), Say("verifying")>>

\* The loop is exhausted.
FinishApply ==
    /\ pc = "apply"
    /\ ~inflight
    /\ i = Len(statements)
    /\ out' = out \o ApplyFinishedLines
    /\ pc' = "verify"
    /\ UNCHANGED <<prog, SUPABASE_URL, SUPABASE_SERVICE_KEY, raised, client,
                   project_ref, migration_sql, statements, i, inflight, submitted,
                   answers, results, queried, counts, existing_tables>>

\* scenarios = ...; runs = ...; executions = ...; evaluations = ...: the next
\* of the four queries. None has a try of its own: an error goes to the
\* outer handler.
VerifyTable ==
    /\ pc = "verify"
    /\ Len(queried) < Len(tables)
    /\ LET table == tables[Len(queried) + 1]
       IN  \E r \in QueryResults :
              /\ queried' = Append(queried, [table |-> table, ok |-> r.ok, count |-> r.count])
              /\ IF r.ok
                 THEN counts' = Append(counts, r.count) /\ UNCHANGED <<pc, raised>>
                 ELSE counts' = counts /\ pc' = "fallback"
                      /\ raised' = Exception("query", r.msg)
    /\ UNCHANGED <<prog, SUPABASE_URL, SUPABASE_SERVICE_KEY, client, project_ref,
                   migration_sql, statements, i, inflight, submitted, answers, results,
                   existing_tables, out>>

\* The four "exists (count: n)" lines and "All drill system tables verified!".
ReportVerified ==
    /\ pc = "verify"
    /\ Len(queried) = Len(tables)
    /\ out' = out \o [k \in 1..Len(tables) |-> Line("table_exists", counts[k], <<>>, tables[k])]
                  \o <<Say("all_verified")>>
    /\ pc' = "done"
    /\ UNCHANGED <<prog, SUPABASE_URL, SUPABASE_SERVICE_KEY, raised, client,
                   project_ref, migration_sql, statements, i, inflight, submitted,
                   answers, results, queried, counts, existing_tables>>

\* except Exception as e: the error line, then the psycopg2 branch or its
\* ImportError branch; both only print, and the script ends.
Fallback ==
    /\ pc = "fallback"
    /\ \E psycopg2 \in BOOLEAN :
          out' = out \o <<Line("error", 0, raised.msg, ""), Say("trying_alternative")>>
                     \o (IF psycopg2
                         THEN <<Say("database_url_required"), Say("manual")>>
                         ELSE <<Say("psycopg2_unavailable"), Say("manual")>>)
    /\ pc' = "done"
    /\ UNCHANGED <<prog, SUPABASE_URL, SUPABASE_SERVICE_KEY, raised, client,
                   project_ref, migration_sql, statements, i, inflight, submitted,
                   answers, results, queried, counts, existing_tables>>

(* ------------------------ apply_migration_simple.py -------------------- *)

\* project_ref = SUPABASE_URL.split('//')[1].split('.')[0], and the two
\* prints under it. A URL without '//' has no element 1: IndexError.
ExtractProjectRef ==
    /\ pc = "project_ref"
    /\ LET parts == SplitStr(SUPABASE_URL.val, SLASHES)
       IN  IF Len(parts) < 2
           THEN /\ pc' = "crashed"
                /\ raised' = Exception("IndexError", <<>>)
                /\ UNCHANGED <<project_ref, out>>
           ELSE /\ project_ref' = SplitStr(parts[2], DOT)[1]
                /\ out' = out \o <<Line("connecting", 0, project_ref', ""),
                                   Line("url", 0, SUPABASE_URL.val, "")>>
                /\ pc' = "read"
                /\ raised' = raised
    /\ UNCHANGED <<prog, SUPABASE_URL, SUPABASE_SERVICE_KEY, client, migration_sql,
                   statements, i, inflight, submitted, answers, results, queried, counts,
                   existing_tables>>

\* Lines 31-65: the three options, printed.
PrintInstructions ==
    /\ pc = "instructions"
    /\ out' = out \o <<Say("instructions"), Say("checking")>>
    /\ pc' = "connect"
    /\ UNCHANGED <<prog, SUPABASE_URL, SUPABASE_SERVICE_KEY, raised, client,
                   project_ref, migration_sql, statements, i, inflight, submitted,
                   answers, results, queried, counts, existing_tables>>

\* from supabase import create_client; supabase = create_client(...), inside
\* the outer try: a failure is printed ("Could not verify tables") and the
\* script ends.
ConnectSimple ==
    /\ pc = "connect"
    /\ \E made \in BOOLEAN :
          IF made
          THEN client' = TRUE /\ pc' = "check" /\ UNCHANGED <<raised, out>>
          ELSE /\ client' = client
               /\ pc' = "done"
               /\ raised' = Exception("create_client", <<>>)
               /\ out' = out \o <<Say("could_not_verify"), Say("manual")>>
    /\ UNCHANGED <<prog, SUPABASE_URL, SUPABASE_SERVICE_KEY, project_ref,
                   migration_sql, statements, i, inflight, submitted, answers, results,
                   queried, counts, existing_tables>>

\* for table in tables: try the query; on success the table is appended to
\* existing_tables and its count printed, on any error "does not exist".
CheckTable ==
    /\ pc = "check"
    /\ Len(queried) < Len(tables)
    /\ LET table == tables[Len(queried) + 1]
       IN  \E r \in QueryResults :
              /\ queried' = Append(queried, [table |-> table, ok |-> r.ok, count |-> r.count])
              /\ IF r.ok
                 THEN /\ existing_tables' = Append(existing_tables, table)
                      /\ out' = Append(out, Line("table_exists", r.count, <<>>, table))
                 ELSE /\ existing_tables' = existing_tables
                      /\ out' = Append(out, Line("table_missing", 0, <<>>, table))
    /\ UNCHANGED <<prog, SUPABASE_URL, SUPABASE_SERVICE_KEY, pc, raised, client,
                   project_ref, migration_sql, statements, i, inflight, submitted,
                   answers, results, counts>>

\* if len(existing_tables) == 4: ... elif len(existing_tables) > 0: ... else: ...
Summarise ==
    /\ pc = "check"
    /\ Len(queried) = Len(tables)
    /\ out' = out \o
          (IF Len(existing_tables) = AllTables
           THEN <<Say("all_exist")>>
           ELSE IF Len(existing_tables) > 0
                THEN <<Line("partial", Len(existing_tables), <<>>, ""), Say("please_complete")>>
                ELSE <<Say("none_found")>>)
    /\ pc' = "done"
    /\ UNCHANGED <<prog, SUPABASE_URL, SUPABASE_SERVICE_KEY, raised, client,
                   project_ref, migration_sql, statements, i, inflight, submitted,
                   answers, results, queried, counts, existing_tables>>

(* ---------------------------- specification ---------------------------- *)

Next ==
    \/ CheckCredentials
    \/ ReadMigration
    \/ CreateClient
    \/ SplitStatements
    \/ SubmitStatement
    \/ ReceiveResult
    \/ FinishApply
    \/ VerifyTable
    \/ ReportVerified
    \/ Fallback
    \/ ExtractProjectRef
    \/ PrintInstructions
    \/ ConnectSimple
    \/ CheckTable
    \/ Summarise

Spec == Init /\ [][Next]_vars

(* ------------------ the text operations, stated by position ------------ *)
(* What the claims say of the splitter and of the classifier, written      *)
(* without the scanning operators above: by the places of the ';' and of   *)
(* the non-blank characters.                                               *)

Min(S) == CHOOSE x \in S : \A y \in S : x <= y

Max(S) == CHOOSE x \in S : \A y \in S : x >= y

\* The places of the ';' in t.
SemiAt(t) == {k \in 1..Len(t) : t[k] = ";"}

\* The number of fragments the ';' cut t into.
NumFragments(t) == Cardinality(SemiAt(t)) + 1

\* The place of the n-th ';' of t.
NthSemi(t, n) == CHOOSE k \in SemiAt(t) : Cardinality({j \in SemiAt(t) : j <= k}) = n

\* The n-th fragment of t: the text between the (n-1)-th and the n-th ';'.
FragmentAt(t, n) ==
    SubSeq(t, IF n = 1 THEN 1 ELSE NthSemi(t, n - 1) + 1,
              IF n = NumFragments(t) THEN Len(t) ELSE NthSemi(t, n) - 1)

\* f without its leading and trailing whitespace.
Trimmed(f) ==
    LET inked == {k \in 1..Len(f) : f[k] \notin Whitespace}
    IN  IF inked = {} THEN <<>> ELSE SubSeq(f, Min(inked), Max(inked))

BeginsWithDashes(f) == Len(f) >= 2 /\ f[1] = "-" /\ f[2] = "-"

\* The fragments of t, each trimmed.
TrimmedFragments(t) == [n \in 1..NumFragments(t) |-> Trimmed(FragmentAt(t, n))]

\* Among the trimmed fragments, those that begin with '--'.
Commented(texts) == {n \in DOMAIN texts : BeginsWithDashes(texts[n])}

\* Among the trimmed fragments, those neither empty nor beginning with '--'.
Kept(texts) == {n \in DOMAIN texts : texts[n] # <<>>} \ Commented(texts)

\* The j-th smallest member of S.
Nth(S, j) == CHOOSE n \in S : Cardinality({m \in S : m <= n}) = j

\* The lower-case letter of each upper-case letter.
LowerOf == [c \in Range(UpperCase) |-> LowerCase[CHOOSE n \in 1..Len(UpperCase) : UpperCase[n] = c]]

\* a and b are the same letter, b in lower case.
SameLetter(a, b) == a = b \/ (a \in DOMAIN LowerOf /\ LowerOf[a] = b)

\* e holds the lower-case word in some letter case.
Mentions(e, word) ==
    \E k \in 1..(Len(e) - Len(word) + 1) :
        \A j \in 1..Len(word) : SameLetter(e[k + j - 1], word[j])

\* How many statements took the branch `kind`.
Count(kind) == Cardinality({k \in 1..Len(results) : results[k] = kind})

\* apply_migration.py has split the migration text.
PastSplit == prog = APPLY /\ pc \in {"apply", "verify", "fallback", "done"}

\* apply_migration.py has left the apply loop.
PastApply == prog = APPLY /\ pc \in {"verify", "fallback", "done"}

\* The aggregate the script reported, read off its output.
Aggregate ==
    IF Say("all_exist") \in Range(out) \/ Say("all_verified") \in Range(out) THEN "Complete"
    ELSE IF \E l \in Range(out) : l.kind = "partial" THEN "Partial"
    ELSE IF Say("none_found") \in Range(out) THEN "NotStarted"
    ELSE "none"

\* The tables whose query succeeded.
Existing == {q \in Range(queried) : q.ok}

(* -------------------------------- claims ------------------------------- *)

\* C1: whatever the executor answers (success, idempotent conflict, other
\* error), once the apply loop has ended every statement has been submitted
\* exactly once, in order, and has exactly one outcome:
\* Applied + SkippedIdempotent + Failed = total.
C1_EveryStatementProcessedOnce ==
    PastApply =>
        /\ submitted = statements
        /\ Len(results) = Len(statements)
        /\ Len(answers) = Len(statements)
        /\ Count("Applied") + Count("SkippedIdempotent") + Count("Failed") = Len(statements)

\* C1 witness: a run of three statements that ended with the first Failed,
\* the second skipped and the third applied.
C1_Witness ==
    /\ prog = APPLY
    /\ pc = "done"
    /\ results = <<"Failed", "SkippedIdempotent", "Applied">>
    /\ submitted = statements

\* C2: the statements are sent in the splitter's order, one at a time: what
\* has been sent is a prefix of the statement list, and a statement is sent
\* only when every earlier call has been answered.
C2_SubmittedInOrderOneAtATime ==
    prog = APPLY =>
        /\ Len(submitted) <= Len(statements)
        /\ submitted = SubSeq(statements, 1, Len(submitted))
        /\ Len(answers) = Len(results)
        /\ Len(submitted) = Len(answers) + (IF inflight THEN 1 ELSE 0)
        /\ inflight => pc = "apply"

\* C2 witness: the second of two different statements is in flight after the
\* first one's error was received.
C2_Witness ==
    /\ inflight
    /\ Len(submitted) = 2
    /\ submitted[1] # submitted[2]
    /\ results = <<"Failed">>

\* C3: the statement list is exactly the kept fragments of the text, trimmed,
\* in their order: the j-th statement is the j-th fragment between ';' that is
\* neither blank nor begins with '--'. The empty text and a comment alone give
\* no statement, "A; B;;  C " gives A, B, C.
C3_SplitIsKeptFragmentsInOrder ==
    PastSplit =>
        /\ LET texts == TrimmedFragments(migration_sql)
               kept == Kept(texts)
           IN  /\ Len(statements) = Cardinality(kept)
               /\ \A j \in 1..Len(statements) : statements[j] = texts[Nth(kept, j)]
        /\ migration_sql = <<>> => statements = <<>>
        /\ migration_sql = EXAMPLE_COMMENT_ONLY => statements = <<>>
        /\ migration_sql = EXAMPLE_ABC => statements = << <<"A">>, <<"B">>, <<"C">> >>

\* C3 witness: "A; B;;  C " has been split.
C3_Witness ==
    /\ prog = APPLY
    /\ pc = "apply"
    /\ migration_sql = EXAMPLE_ABC
    /\ Len(statements) = 3

\* C4: a failed call whose message holds "already exists" or "duplicate" in
\* any letter case is SkippedIdempotent and no warning is printed for it; any
\* other failed call is Failed and printed with its message and the first 100
\* characters of its statement.
C4_FailureClassifiedByMessage ==
    prog = APPLY =>
        \A k \in 1..Len(results) :
            ~answers[k].ok =>
                IF Mentions(answers[k].msg, ALREADY_EXISTS) \/ Mentions(answers[k].msg, DUPLICATE)
                THEN /\ results[k] = "SkippedIdempotent"
                     /\ \A l \in Range(out) :
                           l.kind \in {"warning", "warning_statement"} => l.n # k
                ELSE /\ results[k] = "Failed"
                     /\ Line("warning", k, answers[k].msg, "") \in Range(out)
                     /\ Line("warning_statement", k,
                             [j \in 1..(IF Len(statements[k]) < 100 THEN Len(statements[k]) ELSE 100)
                                 |-> statements[k][j]], "") \in Range(out)

\* C4 witness: a statement longer than 100 characters failed and was printed
\* cut to 100, and the next one was skipped on an upper-case "ALREADY EXISTS".
C4_Witness ==
    /\ prog = APPLY
    /\ pc = "done"
    /\ results = <<"Failed", "SkippedIdempotent">>
    /\ Len(statements[1]) > PreviewLen
    /\ Contains(<<"A","L","R","E","A","D","Y">>, answers[2].msg)
    /\ \E l \in Range(out) : l.kind = "warning_statement" /\ Len(l.text) = PreviewLen

\* C5: at the end of a run that got its client, every expected table has been
\* queried, each is reported Exists(count) if its query succeeded and Missing
\* if it raised, and the aggregate is Complete iff all exist, NotStarted iff
\* none does, Partial otherwise.
C5_VerifyMapsEveryTable ==
    (client /\ pc = "done") =>
        /\ \A k \in 1..Len(tables) :
              \E q \in Range(queried) :
                 /\ q.table = tables[k]
                 /\ q.ok => Line("table_exists", q.count, <<>>, q.table) \in Range(out)
                 /\ ~q.ok => Line("table_missing", 0, <<>>, q.table) \in Range(out)
        /\ Aggregate = "Complete" <=> Cardinality(Existing) = Len(tables)
        /\ Aggregate = "NotStarted" <=> Cardinality(Existing) = 0
        /\ Aggregate = "Partial" <=> Cardinality(Existing) \in 1..(Len(tables) - 1)

\* apply_migration_simple.py alone does what C5 says.
SimpleVerifyMapsEveryTable == prog = SIMPLE => C5_VerifyMapsEveryTable

\* C6: with the URL or the service key missing or empty the run aborts with
\* the configuration error before any remote call: no client, no statement
\* submitted, no table queried.
C6_MissingCredentialsAbortFirst ==
    (\/ ~SUPABASE_URL.set \/ SUPABASE_URL.val = <<>>
     \/ ~SUPABASE_SERVICE_KEY.set \/ SUPABASE_SERVICE_KEY.val = <<>>) =>
        /\ pc \in {"credentials", "aborted"}
        /\ pc = "aborted" => raised.type = "ValueError"
        /\ ~client
        /\ submitted = <<>>
        /\ queried = <<>>
        /\ migration_sql = <<>>

\* C6 witness: the URL is set, the key is the empty string, the run aborted.
C6_Witness ==
    /\ pc = "aborted"
    /\ SUPABASE_URL = Some(URL_OK)
    /\ SUPABASE_SERVICE_KEY = Some(<<>>)

\* C7: no remote failure keeps the run from its normal end, and a table that
\* could not be confirmed is shown in the final summary instead of cutting the
\* verification short: a run never crashes after a remote call, and a run
\* that got its client ends with all four tables queried and an aggregate
\* reported.
C7_RemoteFailuresSurfaceInSummary ==
    /\ pc = "crashed" => submitted = <<>> /\ queried = <<>>
    /\ (client /\ pc = "done") =>
          /\ Len(queried) = Len(tables)
          /\ Aggregate \in {"Complete", "Partial", "NotStarted"}

\* C9: a fragment whose trimmed text begins with '--' is dropped whole, the
\* command under the comment with it: every statement is the trimmed text of
\* a fragment that does not begin with '--', there are exactly as many
\* statements as such fragments, and no more than those are submitted.
C9_CommentedFragmentDroppedWhole ==
    PastSplit =>
        LET texts == TrimmedFragments(migration_sql)
            kept == Kept(texts)
        IN  /\ \A j \in 1..Len(statements) : \E n \in kept : statements[j] = texts[n]
            /\ Len(statements) = Cardinality(kept)
            /\ Len(submitted) <= Cardinality(kept)
            /\ \A j \in 1..Len(submitted) : ~BeginsWithDashes(submitted[j])
            /\ PastApply => Len(submitted) = Cardinality(kept)

\* C9 witness: in "-- t\nA;B" the command A under the comment was never
\* submitted, and the later statement B was.
C9_Witness ==
    /\ prog = APPLY
    /\ pc = "done"
    /\ migration_sql = EXAMPLE_COMMENTED
    /\ Commented(TrimmedFragments(migration_sql)) = {1}
    /\ Contains(<<"\n", "A">>, FragmentAt(migration_sql, 1))
    /\ submitted = << <<"B">> >>
    /\ results = <<"Applied">>

\* C10: in apply_migration.py "Migration applied successfully!" is printed
\* whenever the apply loop ends, whatever the statements' outcomes, and a
\* failed statement never takes the run to the outer handler: only a failed
\* table query does.
C10_SuccessMessageWhateverTheOutcomes ==
    prog = APPLY =>
        /\ PastApply => Say("applied_successfully") \in Range(out)
        /\ pc = "apply" => raised = NoException
        /\ (pc = "fallback" \/ \E l \in Range(out) : l.kind = "error") =>
              /\ raised.type = "query"
              /\ \E q \in Range(queried) : ~q.ok

\* C10 witness: every statement Failed, the success line was printed and the
\* run went on to verify all four tables.
C10_Witness ==
    /\ prog = APPLY
    /\ pc = "done"
    /\ Len(results) >= 2
    /\ \A k \in 1..Len(results) : results[k] = "Failed"
    /\ Say("applied_successfully") \in Range(out)
    /\ Say("all_verified") \in Range(out)

=============================================================================
